---- MODULE Spec2Model ----
(***************************************************************************)
(* wgpu_sort: GPU least-significant-digit radix sort of 32-bit key/value   *)
(* pairs.  The host orchestrator (src/src/lib.rs, src/src/utils.rs) is     *)
(* translated from its source.  The compute shaders (radix_sort.wgsl) are  *)
(* not part of src/; the device side is modelled from the design           *)
(* description, one action per dispatch.                                   *)
(*                                                                         *)
(* A u32 key is held as its four little-endian bytes <<b0, b1, b2, b3>>,   *)
(* the layout bytemuck::cast_slice gives it in a buffer; digit p of a key  *)
(* is byte p.  All host sizes in the model stay below 2^31, so u32         *)
(* arithmetic and integer arithmetic agree on them.                        *)
(***************************************************************************)
EXTENDS Integers, Sequences, FiniteSets, TLC

(***************************************************************************)
(* Program constants, src/src/lib.rs:21-59                                 *)
(***************************************************************************)
HISTOGRAM_WG_SIZE == 256
PREFIX_WG_SIZE == 2^7
SCATTER_WG_SIZE == 2^8
RS_RADIX_LOG2 == 8
RS_RADIX_SIZE == 2^RS_RADIX_LOG2
RS_KEYVAL_SIZE == 32 \div RS_RADIX_LOG2
RS_HISTOGRAM_BLOCK_ROWS == 15
RS_SCATTER_BLOCK_ROWS == RS_HISTOGRAM_BLOCK_ROWS
SCATTER_BLOCK_KVS == HISTOGRAM_WG_SIZE * RS_SCATTER_BLOCK_ROWS
HISTO_BLOCK_KVS == HISTOGRAM_WG_SIZE * RS_HISTOGRAM_BLOCK_ROWS
BYTES_PER_PAYLOAD_ELEM == 4
NUM_PASSES == BYTES_PER_PAYLOAD_ELEM
\* mem::size_of::<u32>()
SIZE_OF_U32 == 4

(***************************************************************************)
(* Bounds of the model                                                     *)
(***************************************************************************)
\* largest capacity of a bundle in the sorting specification
MaxLen == 2
\* sort calls recorded on one bundle
MaxSorts == 2

(***************************************************************************)
(* Host arithmetic, src/src/lib.rs:631-643                                 *)
(***************************************************************************)
\* faulty variant: rounds down, so a partial last block gets no workgroup
scatter_blocks_rd(n) == n \div SCATTER_BLOCK_KVS

scatter_blocks_ru(n) == (n + SCATTER_BLOCK_KVS - 1) \div SCATTER_BLOCK_KVS

\* faulty variant: rounds down
histo_blocks_rd(n) == n \div HISTO_BLOCK_KVS

\* faulty variant: one block too many when n is a whole number of blocks
histo_blocks_off_by_one(n) == n \div HISTO_BLOCK_KVS + 1

histo_blocks_ru(n) ==
    (scatter_blocks_ru(n) * SCATTER_BLOCK_KVS + HISTO_BLOCK_KVS - 1) \div HISTO_BLOCK_KVS

keys_buffer_size(n) == histo_blocks_ru(n) * HISTO_BLOCK_KVS

(***************************************************************************)
(* State                                                                   *)
(***************************************************************************)
VARIABLES
    length,          \* SortBuffers.length; 0 while no bundle exists
    alloc,           \* byte sizes of the buffers create_sort_buffers allocated
    state_buffer,    \* SorterState as four u32 words
    keys_a, keys_b, payload_a, payload_b,   \* first `length` slots of each
    histograms,      \* internal buffer, histogram region: [pass][bin]
    encoder,         \* commands recorded in the caller's CommandEncoder
    queue_writes,    \* queue.write_buffer calls staged until the next submit
    device_queue,    \* submitted commands the device has not run yet
    sorts_recorded,  \* sort calls made on the bundle so far
    test,            \* locals of the calling harness (tests/sort.rs test_sort)
    trace,           \* pipelines the device ran since the last submit
    sg,              \* GPUSorter::new: subgroup_size and the derived constants
    guess,           \* guess_workgroup_size: loop state
    num,             \* host arithmetic on one request size
    scatter          \* one sort on the device, its scatter workgroups interleaved

vars == <<length, alloc, state_buffer, keys_a, keys_b, payload_a, payload_b,
          histograms, encoder, queue_writes, device_queue, sorts_recorded,
          test, trace, sg, guess, num, scatter>>

sortVars == <<length, alloc, state_buffer, keys_a, keys_b, payload_a, payload_b,
              histograms, encoder, queue_writes, device_queue, sorts_recorded,
              test, trace>>

(***************************************************************************)
(* Keys.  A key is <<b0, b1, b2, b3>>, least significant byte first.       *)
(***************************************************************************)
Bytes == 0 .. (RS_RADIX_SIZE - 1)
Passes == 0 .. (NUM_PASSES - 1)

\* keys the harness uploads: consecutive keys of the list differ first (from
\* the top) in digit 0, 1, 2, 3, with the lower digits ordered the other way
KeySet ==
    { <<2, 0, 0, 0>>, <<3, 0, 0, 0>>, <<1, 1, 0, 0>>, <<0, 0, 1, 0>>,
      <<0, 0, 0, 128>> }

ZeroKey == <<0, 0, 0, 0>>

\* a payload is a 32-bit word too; the word i, as uploaded by examples/sort_indirect.rs
PayloadWord(i) == <<i, 0, 0, 0>>

\* (key >> (pass * rs_radix_log2)) & (rs_radix_size - 1)
Digit(k, pass) == k[pass + 1]

\* unsigned 32-bit order: compare from the most significant byte down
KeyLess(a, b) ==
    \E p \in Passes :
        /\ a[p + 1] < b[p + 1]
        /\ \A q \in Passes : q > p => a[q + 1] = b[q + 1]

KeyLeq(a, b) == a = b \/ KeyLess(a, b)

(***************************************************************************)
(* Commands of an encoder.  A dispatch carries its workgroup count; an     *)
(* indirect dispatch reads x from the caller's dispatch buffer, whose      *)
(* contents are fixed when the buffer is created (create_buffer_init       *)
(* without a COPY_DST usage), so the command holds the x it will read.     *)
(***************************************************************************)
Dispatch(pipeline, x) ==
    [op |-> pipeline, wg |-> x, data |-> <<>>]

DispatchIndirect(pipeline, dispatch_buffer) ==
    [op |-> pipeline, wg |-> dispatch_buffer[1], data |-> <<>>]

CopyBufferToBuffer(dst, values) ==
    [op |-> dst, wg |-> 0, data |-> values]

\* the part of a buffer write that lands in the state buffer's words
WriteWords(buf, offset, words) ==
    [i \in 1 .. Len(buf) |->
        IF i > offset /\ i <= offset + Len(words) THEN words[i - offset] ELSE buf[i]]

RECURSIVE ApplyWrites(_, _)
ApplyWrites(buf, writes) ==
    IF writes = <<>> THEN buf
    ELSE ApplyWrites(WriteWords(buf, Head(writes).offset, Head(writes).data),
                     Tail(writes))

(***************************************************************************)
(* GPUSorter: buffer creation, src/src/lib.rs:246-327, 503-557             *)
(***************************************************************************)
\* faulty variant: no padding to whole blocks
keys_byte_size_unpadded(len) == len * BYTES_PER_PAYLOAD_ELEM

\* create_keyval_buffers: byte size of keys and keys_aux
keys_byte_size(len) ==
    LET count_ru_histo == keys_buffer_size(len) * RS_KEYVAL_SIZE
    IN  count_ru_histo * BYTES_PER_PAYLOAD_ELEM

\* create_keyval_buffers: byte size of payload and payload_aux
payload_byte_size(len) == len * BYTES_PER_PAYLOAD_ELEM

\* faulty variant: the histograms alone, no partition descriptors
internal_byte_size_histograms(len) == RS_KEYVAL_SIZE * (RS_RADIX_SIZE * SIZE_OF_U32)

\* create_internal_mem_buffer: byte size of the internal buffer
internal_byte_size(len) ==
    LET histo_size == RS_RADIX_SIZE * SIZE_OF_U32
    IN  (RS_KEYVAL_SIZE + scatter_blocks_ru(len)) * histo_size

general_info_data(len) == <<len, keys_buffer_size(len), 0, 0>>

\* a freshly created wgpu buffer reads as zeros
ZeroHistograms == [p \in Passes |-> [d \in Bytes |-> 0]]

create_sort_buffers(len) ==
    /\ length = 0
    /\ length' = len
    /\ alloc' = [keys_a |-> keys_byte_size(len), keys_b |-> keys_byte_size(len),
                 payload_a |-> payload_byte_size(len),
                 payload_b |-> payload_byte_size(len),
                 internal |-> internal_byte_size(len)]
    /\ state_buffer' = general_info_data(len)
    /\ keys_a' = [i \in 1 .. len |-> ZeroKey]
    /\ keys_b' = [i \in 1 .. len |-> ZeroKey]
    /\ payload_a' = [i \in 1 .. len |-> ZeroKey]
    /\ payload_b' = [i \in 1 .. len |-> ZeroKey]
    /\ histograms' = ZeroHistograms
    /\ UNCHANGED <<encoder, queue_writes, device_queue, sorts_recorded, test, trace,
                   sg, guess, num, scatter>>

\* SortBuffers::len, keys, values, keys_valid_size, src/src/lib.rs:600-629
len == length
keys == keys_a
\* faulty variant: hands out the auxiliary payload buffer
values_aux == payload_b
values == payload_a
keys_valid_size == len * RS_KEYVAL_SIZE

(***************************************************************************)
(* GPUSorter: recording, src/src/lib.rs:329-500                            *)
(***************************************************************************)
record_calculate_histogram(n) ==
    LET hist_blocks_ru == histo_blocks_ru(n)
    IN  << Dispatch("zero_histograms", hist_blocks_ru),
           Dispatch("calculate_histogram", hist_blocks_ru) >>

record_calculate_histogram_indirect(dispatch_buffer) ==
    << DispatchIndirect("zero_histograms", dispatch_buffer),
       DispatchIndirect("calculate_histogram", dispatch_buffer) >>

\* faulty variant: one workgroup for the four passes
record_prefix_histogram_one == << Dispatch("prefix_histogram", 1) >>

record_prefix_histogram == << Dispatch("prefix_histogram", NUM_PASSES) >>

\* faulty variant: two passes, as for 16-bit keys
record_scatter_keys_two(n) ==
    LET blocks == scatter_blocks_ru(n)
    IN  << Dispatch("scatter_even", blocks), Dispatch("scatter_odd", blocks) >>

\* faulty variant: the even pipeline in all four dispatches
record_scatter_keys_even_only(n) ==
    LET blocks == scatter_blocks_ru(n)
    IN  << Dispatch("scatter_even", blocks), Dispatch("scatter_even", blocks),
           Dispatch("scatter_even", blocks), Dispatch("scatter_even", blocks) >>

\* faulty variant: starts with the odd pipeline
record_scatter_keys_odd_first(n) ==
    LET blocks == scatter_blocks_ru(n)
    IN  << Dispatch("scatter_odd", blocks), Dispatch("scatter_even", blocks),
           Dispatch("scatter_odd", blocks), Dispatch("scatter_even", blocks) >>

record_scatter_keys(n) ==
    LET blocks == scatter_blocks_ru(n)
    IN  << Dispatch("scatter_even", blocks), Dispatch("scatter_odd", blocks),
           Dispatch("scatter_even", blocks), Dispatch("scatter_odd", blocks) >>

\* faulty variant: the fourth dispatch is missing
record_scatter_keys_indirect_3(dispatch_buffer) ==
    << DispatchIndirect("scatter_even", dispatch_buffer),
       DispatchIndirect("scatter_odd", dispatch_buffer),
       DispatchIndirect("scatter_even", dispatch_buffer) >>

record_scatter_keys_indirect(dispatch_buffer) ==
    << DispatchIndirect("scatter_even", dispatch_buffer),
       DispatchIndirect("scatter_odd", dispatch_buffer),
       DispatchIndirect("scatter_even", dispatch_buffer),
       DispatchIndirect("scatter_odd", dispatch_buffer) >>

\* Option<u32>: None is the empty tuple, Some(n) the tuple <<n>>
None == << >>
Some(n) == << n >>
unwrap_or(opt, default) == IF opt = None THEN default ELSE opt[1]

\* faulty variant: writes a whole SorterState instead of its first word
write_sorter_state(n) == [offset |-> 0, data |-> general_info_data(n)]

\* queue.write_buffer(&sort_buffers.state_buffer, 0, bytes_of(&num_elements))
write_num_keys(n) == [offset |-> 0, data |-> <<n>>]

\* faulty variant: ignores sort_first_n
num_elements_all(sort_first_n) == len

\* GPUSorter::sort: let num_elements = sort_first_n.unwrap_or(sort_buffers.len())
num_elements(sort_first_n) == unwrap_or(sort_first_n, len)

\* GPUSorter::sort: what it appends to the encoder and to the queue's writes
sort_commands(sort_first_n) ==
    record_calculate_histogram(num_elements(sort_first_n))
        \o record_prefix_histogram
        \o record_scatter_keys(num_elements(sort_first_n))

sort_writes(sort_first_n) == << write_num_keys(num_elements(sort_first_n)) >>

\* GPUSorter::sort_indirect: it records, and writes nothing
sort_indirect_commands(dispatch_buffer) ==
    record_calculate_histogram_indirect(dispatch_buffer)
        \o record_prefix_histogram
        \o record_scatter_keys_indirect(dispatch_buffer)

\* faulty variant: stages a write of the bundle's length
sort_indirect_writes_len == << write_num_keys(len) >>

sort_indirect_writes == << >>

(***************************************************************************)
(* The calling harness: tests/sort.rs test_sort, apply_sort and            *)
(* apply_sort_indirect; benches/sort.rs sort (several sort calls with one  *)
(* n in one encoder).  The harness waits for the device after each submit. *)
(***************************************************************************)
Idle == device_queue = <<>>

\* values the harness uploads next to keys: the keys again (tests/sort.rs:143)
\* or the words 1..n (examples/sort_indirect.rs:38)
ValueSchemes == {"keys", "index"}

ValuesFor(scheme, ks) ==
    IF scheme = "keys" THEN ks ELSE [i \in 1 .. Len(ks) |-> PayloadWord(i)]

\* upload_to_buffer twice: keys, then values
upload(ks, scheme) ==
    /\ length > 0 /\ Idle
    /\ test.phase = "created"
    /\ encoder' = encoder \o << CopyBufferToBuffer("copy_keys", ks),
                                CopyBufferToBuffer("copy_values", ValuesFor(scheme, ks)) >>
    /\ test' = [test EXCEPT !.phase = "uploaded",
                            !.keys_scrambled = ks,
                            !.values_scrambled = ValuesFor(scheme, ks)]
    /\ UNCHANGED <<length, alloc, state_buffer, keys_a, keys_b, payload_a, payload_b,
                   histograms, queue_writes, device_queue, sorts_recorded, trace,
                   sg, guess, num, scatter>>

\* when the harness calls its sort_fn: after the upload (tests/sort.rs), again
\* with the same n in the same encoder (the loop of benches/sort.rs), and again
\* with the same n once the device has finished the previous submission
MayRecord(fn, sort_first_n) ==
    /\ length > 0 /\ Idle
    /\ sorts_recorded < MaxSorts
    /\ \/ test.phase = "uploaded"
       \/ /\ test.phase \in {"recorded", "done"}
          /\ test.sort_fn = fn
          /\ test.n_sorted = unwrap_or(sort_first_n, length)

\* the harness's locals once a sort call is recorded: n_sorted as in
\* tests/sort.rs:134; after a finished submission the sort starts from what
\* the bundle holds.  calls lists the n of each sort call of the encoder,
\* written is the num_keys last handed to queue.write_buffer
Recorded(fn, sort_first_n) ==
    [test EXCEPT !.phase = "recorded",
                 !.n_sorted = unwrap_or(sort_first_n, length),
                 !.sort_fn = fn,
                 !.iters = IF test.phase = "recorded" THEN @ + 1 ELSE 1,
                 !.calls = IF test.phase = "recorded"
                           THEN Append(@, unwrap_or(sort_first_n, length))
                           ELSE << unwrap_or(sort_first_n, length) >>,
                 !.written = Some(unwrap_or(sort_first_n, length)),
                 !.keys_scrambled = IF test.phase = "done" THEN keys_a ELSE @,
                 !.values_scrambled = IF test.phase = "done" THEN payload_a ELSE @]

\* apply_sort: sorter.sort(encoder, queue, &sort_buffers, n)
sort(sort_first_n) ==
    /\ MayRecord("apply_sort", sort_first_n)
    /\ queue_writes' = queue_writes \o sort_writes(sort_first_n)
    /\ encoder' = encoder \o sort_commands(sort_first_n)
    /\ sorts_recorded' = sorts_recorded + 1
    /\ test' = Recorded("apply_sort", sort_first_n)
    /\ UNCHANGED <<length, alloc, state_buffer, keys_a, keys_b, payload_a, payload_b,
                   histograms, device_queue, trace, sg, guess, num, scatter>>

\* apply_sort_indirect: the caller writes nelm and the indirect args, then
\* sorter.sort_indirect(encoder, &sort_buffers, &dispatch_buffer)
\* let num_wg = (nelm + HISTO_BLOCK_KVS - 1) / HISTO_BLOCK_KVS
num_wg(nelm) == (nelm + HISTO_BLOCK_KVS - 1) \div HISTO_BLOCK_KVS

apply_sort_indirect(n) ==
    LET nelm == unwrap_or(n, len)
        dispatch_indirect == << num_wg(nelm), 1, 1 >>
    IN  /\ MayRecord("apply_sort_indirect", n)
        /\ queue_writes' = (queue_writes \o << [offset |-> 0, data |-> <<nelm>>] >>)
                               \o sort_indirect_writes
        /\ encoder' = encoder \o sort_indirect_commands(dispatch_indirect)
        /\ sorts_recorded' = sorts_recorded + 1
        /\ test' = Recorded("apply_sort_indirect", n)
        /\ UNCHANGED <<length, alloc, state_buffer, keys_a, keys_b, payload_a,
                       payload_b, histograms, device_queue, trace, sg, guess, num, scatter>>

(***************************************************************************)
(* The device.  radix_sort.wgsl is not among the sources; each entry point *)
(* is modelled from its design description, a whole dispatch per step, as  *)
(* a function of the device memory m (the six buffers of the bind group).  *)
(***************************************************************************)
Min(a, b) == IF a <= b THEN a ELSE b

Mem == [state_buffer |-> state_buffer, histograms |-> histograms,
        keys_a |-> keys_a, keys_b |-> keys_b,
        payload_a |-> payload_a, payload_b |-> payload_b]

\* fields of SorterState, src/src/lib.rs:564-570
num_keys(m) == m.state_buffer[1]
padded_size(m) == m.state_buffer[2]
even_pass(m) == m.state_buffer[3]
odd_pass(m) == m.state_buffer[4]

\* keyvals a dispatch of wg workgroups of block_kvs keyvals each reads: lanes
\* at or beyond num_keys contribute nothing
Covered(m, wg, block_kvs) ==
    Min(Min(num_keys(m), wg * block_kvs), Len(m.keys_a))

AddKey(h, k) == [p \in Passes |-> [h[p] EXCEPT ![Digit(k, p)] = @ + 1]]

RECURSIVE CountKeys(_, _, _, _)
CountKeys(h, ks, i, n) ==
    IF i > n THEN h ELSE CountKeys(AddKey(h, ks[i]), ks, i + 1, n)

\* sum of bins lo..hi of one histogram
RECURSIVE SumBins(_, _, _)
SumBins(h, lo, hi) ==
    IF lo = hi THEN h[lo]
    ELSE LET mid == (lo + hi) \div 2
         IN  SumBins(h, lo, mid) + SumBins(h, mid + 1, hi)

\* exclusive prefix sums of bins lo..hi, as a sequence, acc being the sum of
\* the bins below lo
RECURSIVE ScanBins(_, _, _, _)
ScanBins(h, lo, hi, acc) ==
    IF lo = hi THEN <<acc>>
    ELSE LET mid == (lo + hi) \div 2
         IN  ScanBins(h, lo, mid, acc)
                 \o ScanBins(h, mid + 1, hi, acc + SumBins(h, lo, mid))

ExclusiveScan(h) ==
    LET s == ScanBins(h, 0, RS_RADIX_SIZE - 1, 0) IN [d \in Bytes |-> s[d + 1]]

\* destination (0-based) of source slot i in a scatter on digit `pass`: the
\* digit's global base plus the number of earlier keyvals with that digit
ScatterIndex(h, src, pass, i) ==
    h[pass][Digit(src[i], pass)]
        + Cardinality({j \in 1 .. (i - 1) : Digit(src[j], pass) = Digit(src[i], pass)})

\* the destination buffer after the first n slots of src were scattered by
\* the digits of the keys src_keys
Scattered(h, src, dst, src_keys, pass, n) ==
    [x \in 1 .. Len(dst) |->
        IF \E i \in 1 .. n : ScatterIndex(h, src_keys, pass, i) + 1 = x
        THEN src[CHOOSE i \in 1 .. n : ScatterIndex(h, src_keys, pass, i) + 1 = x]
        ELSE dst[x]]

\* pass index a scatter entry point derives from its counter in the state
PassOfEven(m) == (2 * even_pass(m)) % NUM_PASSES
PassOfOdd(m) == (2 * odd_pass(m) + 1) % NUM_PASSES

CopyKeys(m, data) ==
    [m EXCEPT !.keys_a = [i \in 1 .. Len(m.keys_a) |->
                            IF i <= Len(data) THEN data[i] ELSE m.keys_a[i]]]

CopyValues(m, data) ==
    [m EXCEPT !.payload_a = [i \in 1 .. Len(m.payload_a) |->
                            IF i <= Len(data) THEN data[i] ELSE m.payload_a[i]]]

ZeroHistogramsPass(m, wg) ==
    [m EXCEPT !.histograms = IF wg >= 1 THEN ZeroHistograms ELSE @]

CalculateHistogramPass(m, wg) ==
    [m EXCEPT !.histograms =
        CountKeys(@, m.keys_a, 1, Covered(m, wg, HISTO_BLOCK_KVS))]

PrefixHistogramPass(m, wg) ==
    [m EXCEPT !.histograms =
        [p \in Passes |-> IF p < wg THEN ExclusiveScan(@[p]) ELSE @[p]]]

ScatterEvenPass(m, wg) ==
    LET n == Covered(m, wg, SCATTER_BLOCK_KVS)
        pass == PassOfEven(m)
    IN  [m EXCEPT
            !.keys_b = Scattered(m.histograms, m.keys_a, @, m.keys_a, pass, n),
            !.payload_b = Scattered(m.histograms, m.payload_a, @, m.keys_a, pass, n),
            !.state_buffer = [@ EXCEPT ![3] = @ + 1]]

ScatterOddPass(m, wg) ==
    LET n == Covered(m, wg, SCATTER_BLOCK_KVS)
        pass == PassOfOdd(m)
    IN  [m EXCEPT
            !.keys_a = Scattered(m.histograms, m.keys_b, @, m.keys_b, pass, n),
            !.payload_a = Scattered(m.histograms, m.payload_b, @, m.keys_b, pass, n),
            !.state_buffer = [@ EXCEPT ![4] = @ + 1]]

\* one command of a submitted encoder
Exec(m, cmd) ==
    CASE cmd.op = "copy_keys" -> CopyKeys(m, cmd.data)
      [] cmd.op = "copy_values" -> CopyValues(m, cmd.data)
      [] cmd.op = "zero_histograms" -> ZeroHistogramsPass(m, cmd.wg)
      [] cmd.op = "calculate_histogram" -> CalculateHistogramPass(m, cmd.wg)
      [] cmd.op = "prefix_histogram" -> PrefixHistogramPass(m, cmd.wg)
      [] cmd.op = "scatter_even" -> ScatterEvenPass(m, cmd.wg)
      [] cmd.op = "scatter_odd" -> ScatterOddPass(m, cmd.wg)

\* a whole submission: the staged writes, then the commands in order
RECURSIVE ExecAll(_, _)
ExecAll(m, cmds) ==
    IF cmds = <<>> THEN m ELSE ExecAll(Exec(m, Head(cmds)), Tail(cmds))

Submitted(m, writes, cmds) ==
    ExecAll([m EXCEPT !.state_buffer = ApplyWrites(@, writes)], cmds)

(***************************************************************************)
(* Submission                                                              *)
(***************************************************************************)
\* test_sort before its uploads
NoTest == [phase |-> "created", n_sorted |-> 0, sort_fn |-> "none", iters |-> 0,
           calls |-> <<>>, written |-> None,
           direct |-> [keys |-> <<>>, values |-> <<>>],
           keys_scrambled |-> <<>>, values_scrambled |-> <<>>]

IsCopy(cmd) == cmd.op \in {"copy_keys", "copy_values"}

RECURSIVE Repeat(_, _)
Repeat(seq, k) == IF k = 0 THEN <<>> ELSE seq \o Repeat(seq, k - 1)

\* what the submission would leave in the first n_sorted slots of the a side
\* had every sort call of the encoder been sort(.., Some(n_sorted)): the
\* reference the indirect sort is compared with
DirectReference ==
    LET m == Submitted(Mem,
                       Repeat(sort_writes(Some(test.n_sorted)), test.iters),
                       SelectSeq(encoder, IsCopy)
                           \o Repeat(sort_commands(Some(test.n_sorted)), test.iters))
    IN  [keys |-> SubSeq(m.keys_a, 1, test.n_sorted),
         values |-> SubSeq(m.payload_a, 1, test.n_sorted)]

\* queue.submit([encoder.finish()]): the staged writes land first, then the
\* encoder's commands run in order
submit ==
    /\ Idle /\ test.phase = "recorded"
    /\ state_buffer' = ApplyWrites(state_buffer, queue_writes)
    /\ queue_writes' = <<>>
    /\ device_queue' = encoder
    /\ encoder' = <<>>
    /\ trace' = <<>>
    /\ \E ref \in {IF test.sort_fn = "apply_sort_indirect"
                     THEN DirectReference ELSE NoTest.direct} :
           test' = [test EXCEPT !.phase = "submitted", !.direct = ref]
    /\ UNCHANGED <<length, alloc, keys_a, keys_b, payload_a, payload_b, histograms,
                   sorts_recorded, sg, guess, num, scatter>>

Head0 == Head(device_queue)

\* the device runs the next command of the queue
Run(pipelines) ==
    /\ device_queue # <<>>
    /\ Head0.op \in pipelines
    /\ \E m \in {Exec(Mem, Head0)} :
           /\ state_buffer' = m.state_buffer
           /\ histograms' = m.histograms
           /\ keys_a' = m.keys_a
           /\ keys_b' = m.keys_b
           /\ payload_a' = m.payload_a
           /\ payload_b' = m.payload_b
    /\ device_queue' = Tail(device_queue)
    /\ trace' = Append(trace, Head0.op)
    /\ test' = IF Len(device_queue) = 1 THEN [test EXCEPT !.phase = "done"] ELSE test
    /\ UNCHANGED <<length, alloc, encoder, queue_writes, sorts_recorded, sg, guess, num, scatter>>

copy_buffer_to_buffer == Run({"copy_keys", "copy_values"})
zero_histograms == Run({"zero_histograms"})
calculate_histogram == Run({"calculate_histogram"})
prefix_histogram == Run({"prefix_histogram"})
scatter_even == Run({"scatter_even"})
scatter_odd == Run({"scatter_odd"})

(***************************************************************************)
(* Specification of sorting: one bundle, uploads, sorts, the device        *)
(***************************************************************************)
SortInit ==
    /\ length = 0
    /\ alloc = [keys_a |-> 0, keys_b |-> 0, payload_a |-> 0, payload_b |-> 0,
                internal |-> 0]
    /\ state_buffer = <<>>
    /\ keys_a = <<>> /\ keys_b = <<>> /\ payload_a = <<>> /\ payload_b = <<>>
    /\ histograms = <<>>
    /\ encoder = <<>> /\ queue_writes = <<>> /\ device_queue = <<>>
    /\ sorts_recorded = 0
    /\ test = NoTest
    /\ trace = <<>>

NoSorter == << >>
NoGuess == << >>
NoCounts == << >>
NoScatter == << >>

Init == SortInit /\ sg = NoSorter /\ guess = NoGuess /\ num = NoCounts /\ scatter = NoScatter

SortArgs == {None} \cup {Some(n) : n \in 1 .. length}

Next ==
    \/ \E c \in 1 .. MaxLen : create_sort_buffers(c)
    \/ \E ks \in [1 .. length -> KeySet], scheme \in ValueSchemes : upload(ks, scheme)
    \/ \E n \in SortArgs : sort(n)
    \/ \E n \in SortArgs : apply_sort_indirect(n)
    \/ submit
    \/ copy_buffer_to_buffer
    \/ zero_histograms
    \/ calculate_histogram
    \/ prefix_histogram
    \/ scatter_even
    \/ scatter_odd

Spec == Init /\ [][Next]_vars

(***************************************************************************)
(* Callers of the library functions themselves, as examples/sort.rs and    *)
(* examples/sort_indirect.rs are: any sequence of queue.write_buffer on    *)
(* the state buffer, sort and sort_indirect, in one encoder per submit.    *)
(***************************************************************************)
\* the scrambled input of utils.rs test_sort: a descending sequence
DescendingKeys == << <<0, 0, 0, 128>>, <<0, 0, 1, 0>>, <<1, 1, 0, 0>>, <<3, 0, 0, 0>>,
                     <<2, 0, 0, 0>> >>

MayCall ==
    /\ length > 0 /\ Idle
    /\ sorts_recorded < MaxSorts
    /\ test.phase \in {"uploaded", "recorded", "done"}

\* the caller's locals once a library call is recorded; a call of
\* sort_indirect passes no n and is listed as 0
Called(fn, n) ==
    [test EXCEPT !.phase = "recorded",
                 !.sort_fn = fn,
                 !.iters = IF test.phase = "recorded" THEN @ + 1 ELSE 1,
                 !.calls = IF test.phase = "recorded" THEN Append(@, n) ELSE << n >>]

\* queue.write_buffer(sort_buffers.state_buffer(), 0, bytes_of(&n))
write_buffer(n) ==
    /\ length > 0 /\ Idle
    /\ test.phase \in {"uploaded", "recorded", "done"}
    /\ Len(queue_writes) < MaxSorts
    /\ queue_writes' = Append(queue_writes, [offset |-> 0, data |-> << n >>])
    /\ test' = [test EXCEPT !.written = Some(n),
                            !.phase = IF @ = "done" THEN "uploaded" ELSE @]
    /\ UNCHANGED <<length, alloc, state_buffer, keys_a, keys_b, payload_a, payload_b,
                   histograms, encoder, device_queue, sorts_recorded, trace,
                   sg, guess, num, scatter>>

\* sorter.sort(&mut encoder, &queue, &sort_buffers, sort_first_n)
sort_call(sort_first_n) ==
    /\ MayCall
    /\ queue_writes' = queue_writes \o sort_writes(sort_first_n)
    /\ encoder' = encoder \o sort_commands(sort_first_n)
    /\ sorts_recorded' = sorts_recorded + 1
    /\ test' = [Called("sort", unwrap_or(sort_first_n, length))
                    EXCEPT !.written = Some(unwrap_or(sort_first_n, length))]
    /\ UNCHANGED <<length, alloc, state_buffer, keys_a, keys_b, payload_a, payload_b,
                   histograms, device_queue, trace, sg, guess, num, scatter>>

\* sorter.sort_indirect(&mut encoder, &sort_buffers, &dispatch_buffer)
sort_indirect(dispatch_buffer) ==
    /\ MayCall
    /\ queue_writes' = queue_writes \o sort_indirect_writes
    /\ encoder' = encoder \o sort_indirect_commands(dispatch_buffer)
    /\ sorts_recorded' = sorts_recorded + 1
    /\ test' = Called("sort_indirect", 0)
    /\ UNCHANGED <<length, alloc, state_buffer, keys_a, keys_b, payload_a, payload_b,
                   histograms, device_queue, trace, sg, guess, num, scatter>>

\* the indirect args a caller builds for some n of the bundle
DispatchBuffers == { << num_wg(n), 1, 1 >> : n \in 1 .. length }

NextCalls ==
    \/ \E c \in 1 .. MaxLen : create_sort_buffers(c)
    \/ \E scheme \in ValueSchemes : upload(SubSeq(DescendingKeys, 1, length), scheme)
    \/ \E n \in 1 .. length : write_buffer(n)
    \/ \E n \in SortArgs : sort_call(n)
    \/ \E d \in DispatchBuffers : sort_indirect(d)
    \/ submit
    \/ copy_buffer_to_buffer
    \/ zero_histograms
    \/ calculate_histogram
    \/ prefix_histogram
    \/ scatter_even
    \/ scatter_odd

SpecCalls == Init /\ [][NextCalls]_vars

(***************************************************************************)
(* guess_workgroup_size: the probe of the subgroup width.  Whether the     *)
(* test sort works at a width is a property of the device; works is one    *)
(* of the 2^6 patterns.                                                    *)
(***************************************************************************)
subgroup_sizes == << 1, 8, 16, 32, 64, 128 >>
SubgroupSizeSet == { subgroup_sizes[i] : i \in 1 .. Len(subgroup_sizes) }

GuessInit ==
    guess \in { [works |-> w, pc |-> "for", i |-> 1, best |-> None,
                 sort_success |-> FALSE, tested |-> <<>>, result |-> None] :
                w \in [SubgroupSizeSet -> BOOLEAN] }

\* cur_sorter = GPUSorter::new(..); sort_success = test_sort(..).await
guess_test_sort ==
    /\ guess # NoGuess /\ guess.pc = "for" /\ guess.i <= Len(subgroup_sizes)
    /\ guess' = [guess EXCEPT !.pc = "if",
                              !.sort_success = guess.works[subgroup_sizes[guess.i]],
                              !.tested = Append(@, subgroup_sizes[guess.i])]
    /\ UNCHANGED <<sortVars, sg, num, scatter>>

\* faulty variant: continue with the next width instead of break
guess_continue ==
    /\ guess # NoGuess /\ guess.pc = "if" /\ ~guess.sort_success
    /\ guess' = [guess EXCEPT !.pc = IF guess.i = Len(subgroup_sizes) THEN "return" ELSE "for",
                              !.i = @ + 1]
    /\ UNCHANGED <<sortVars, sg, num, scatter>>

\* if !sort_success { break; }
guess_break ==
    /\ guess # NoGuess /\ guess.pc = "if" /\ ~guess.sort_success
    /\ guess' = [guess EXCEPT !.pc = "return"]
    /\ UNCHANGED <<sortVars, sg, num, scatter>>

\* else { best = Some(subgroup_size) }
guess_best ==
    /\ guess # NoGuess /\ guess.pc = "if" /\ guess.sort_success
    /\ guess' = [guess EXCEPT !.pc = IF guess.i = Len(subgroup_sizes) THEN "return" ELSE "for",
                              !.best = Some(subgroup_sizes[guess.i]),
                              !.i = @ + 1]
    /\ UNCHANGED <<sortVars, sg, num, scatter>>

\* return best;
guess_return ==
    /\ guess # NoGuess /\ guess.pc = "return"
    /\ guess' = [guess EXCEPT !.pc = "returned", !.result = guess.best]
    /\ UNCHANGED <<sortVars, sg, num, scatter>>

InitGuess == SortInit /\ sg = NoSorter /\ GuessInit /\ num = NoCounts /\ scatter = NoScatter

NextGuess == guess_test_sort \/ guess_break \/ guess_best \/ guess_return

SpecGuess == InitGuess /\ [][NextGuess]_vars

(***************************************************************************)
(* Workgroup counts: what sort dispatches for n keys and what a caller of  *)
(* sort_indirect puts in the indirect args for n keys.                     *)
(***************************************************************************)
MaxBlocks == 4
MaxOffset == 3

BlockCounts == (0 .. MaxBlocks) \cup { 5208, 34952, 559000 }
KeyCounts ==
    { n \in { b * HISTO_BLOCK_KVS + d : b \in BlockCounts, d \in (0 - MaxOffset) .. MaxOffset } :
        n >= 1 }

CountsInit ==
    num \in { [n |-> n, direct |-> <<>>, x |-> 0, indirect |-> <<>>] : n \in KeyCounts }

\* the dispatches sort(.., Some(n)) records
count_direct ==
    /\ num # NoCounts /\ num.direct = <<>>
    /\ num' = [num EXCEPT !.direct = sort_commands(Some(num.n))]
    /\ UNCHANGED <<sortVars, sg, guess, scatter>>

\* the indirect args for n keys and the dispatches sort_indirect records
count_indirect ==
    /\ num # NoCounts /\ num.indirect = <<>>
    /\ num' = [num EXCEPT !.x = num_wg(num.n),
                          !.indirect = sort_indirect_commands(<< num_wg(num.n), 1, 1 >>)]
    /\ UNCHANGED <<sortVars, sg, guess, scatter>>

InitCounts == SortInit /\ sg = NoSorter /\ guess = NoGuess /\ CountsInit /\ scatter = NoScatter

NextCounts == count_direct \/ count_indirect

SpecCounts == InitCounts /\ [][NextCounts]_vars

(***************************************************************************)
(* GPUSorter::new.  The host computes the shader's constants; the device   *)
(* compiles the shader and creates the pipelines.                          *)
(***************************************************************************)
MaxWidth == 130

\* the subgroup widths the shaders are written for
Supported(W) == W \in { 2^e : e \in 0 .. 7 }

SorterInit ==
    sg \in { [subgroup_size |-> W, pc |-> "new",
              rs_sweep_0_size |-> 0, rs_sweep_1_size |-> 0, rs_sweep_2_size |-> 0,
              rs_smem_phase_1 |-> 0, rs_mem_dwords |-> 0,
              rs_mem_sweep_0_offset |-> 0, rs_mem_sweep_1_offset |-> 0,
              rs_mem_sweep_2_offset |-> 0, result |-> "none"] : W \in 0 .. MaxWidth }

\* faulty variant: the rows of one invocation instead of those of the workgroup
rs_smem_phase_2_rows == RS_RADIX_SIZE + RS_SCATTER_BLOCK_ROWS

\* the workgroup memory of the scatter phase, in dwords
rs_smem_phase_2 == RS_RADIX_SIZE + RS_SCATTER_BLOCK_ROWS * SCATTER_WG_SIZE

\* the special variables for the scatter shader; a u32 division by zero panics
new_constants ==
    /\ sg # NoSorter /\ sg.pc = "new"
    /\ LET histogram_sg_size == sg.subgroup_size
       IN  IF histogram_sg_size = 0
           THEN sg' = [sg EXCEPT !.pc = "panicked", !.result = "divide_by_zero"]
           ELSE LET rs_sweep_0_size == RS_RADIX_SIZE \div histogram_sg_size
                    rs_sweep_1_size == rs_sweep_0_size \div histogram_sg_size
                    rs_sweep_2_size == rs_sweep_1_size \div histogram_sg_size
                    rs_sweep_size == rs_sweep_0_size + rs_sweep_1_size + rs_sweep_2_size
                    rs_smem_phase_1 == RS_RADIX_SIZE + RS_RADIX_SIZE + rs_sweep_size
                    sweep_0_offset == 0
                    sweep_1_offset == sweep_0_offset + rs_sweep_0_size
                    sweep_2_offset == sweep_1_offset + rs_sweep_1_size
                IN  sg' = [sg EXCEPT !.pc = "shader",
                                     !.rs_sweep_0_size = rs_sweep_0_size,
                                     !.rs_sweep_1_size = rs_sweep_1_size,
                                     !.rs_sweep_2_size = rs_sweep_2_size,
                                     !.rs_smem_phase_1 = rs_smem_phase_1,
                                     !.rs_mem_dwords = rs_smem_phase_2,
                                     !.rs_mem_sweep_0_offset = sweep_0_offset,
                                     !.rs_mem_sweep_1_offset = sweep_1_offset,
                                     !.rs_mem_sweep_2_offset = sweep_2_offset]
    /\ UNCHANGED <<sortVars, guess, num, scatter>>

\* device.create_shader_module on the shader text with the constants in front
create_shader_module ==
    /\ sg # NoSorter /\ sg.pc = "shader"
    /\ sg' = [sg EXCEPT !.pc = "pipelines"]
    /\ UNCHANGED <<sortVars, guess, num, scatter>>

\* device.create_compute_pipeline for the five entry points
create_compute_pipeline ==
    /\ sg # NoSorter /\ sg.pc = "pipelines"
    /\ sg' = IF Supported(sg.subgroup_size)
             THEN [sg EXCEPT !.pc = "returned", !.result = "sorter"]
             ELSE [sg EXCEPT !.pc = "failed", !.result = "pipeline_error"]
    /\ UNCHANGED <<sortVars, guess, num, scatter>>

InitNew == SortInit /\ SorterInit /\ guess = NoGuess /\ num = NoCounts /\ scatter = NoScatter

NextNew == new_constants \/ create_shader_module \/ create_compute_pipeline

SpecNew == InitNew /\ [][NextNew]_vars

(***************************************************************************)
(* The scatter passes at the grain of workgroups.  One sort of n keys runs *)
(* its seven dispatches; in a scatter dispatch the steps of the workgroups *)
(* interleave freely.  Every key is 0x00000000 or 0xFFFFFFFF, so a block   *)
(* of the source is given by how many of its keys have digit 0 and how     *)
(* many digit 255, in every pass.                                          *)
(***************************************************************************)
\* workgroups of a scatter dispatch
MaxScatterBlocks == 3

Digits == {0, 255}
ZeroCounts == [d \in Digits |-> 0]

\* sizes with a full and with a one-key last block
ScatterKeyCounts ==
    { b * SCATTER_BLOCK_KVS - d : b \in 1 .. MaxScatterBlocks,
                                  d \in {0, SCATTER_BLOCK_KVS - 1} }

\* blocks of SCATTER_BLOCK_KVS keyvals that hold the first n slots
SourceBlocks(n) == { b \in 1 .. (MaxScatterBlocks + 1) : (b - 1) * SCATTER_BLOCK_KVS < n }

\* keyvals block b loads: lanes at or beyond num_keys load nothing
BlockSize(n, b) ==
    IF (b - 1) * SCATTER_BLOCK_KVS >= n THEN 0
    ELSE Min(SCATTER_BLOCK_KVS, n - (b - 1) * SCATTER_BLOCK_KVS)

\* the layouts of the source: per block, the keys with digit 0 are none, one
\* or all of the block
SourceLayouts(n) ==
    { [b \in SourceBlocks(n) |-> [d \in Digits |-> IF d = 0 THEN z[b] ELSE BlockSize(n, b) - z[b]]] :
        z \in { y \in [SourceBlocks(n) -> {0, 1, SCATTER_BLOCK_KVS}] :
                    \A b \in SourceBlocks(n) : y[b] \in {0, 1, BlockSize(n, b)} } }

\* rows of RS_RADIX_SIZE words of the internal buffer behind the histograms:
\* the partition descriptors, one row per scatter block
PartitionRows(capacity) ==
    internal_byte_size(capacity) \div (RS_RADIX_SIZE * SIZE_OF_U32) - RS_KEYVAL_SIZE

INVALID == [status |-> "INVALID", value |-> ZeroCounts]
REDUCTION(v) == [status |-> "REDUCTION", value |-> v]
PREFIX(v) == [status |-> "PREFIX", value |-> v]

RECURSIVE SumOver(_, _)
SumOver(f, S) ==
    IF S = {} THEN 0
    ELSE LET x == CHOOSE y \in S : TRUE IN f[x] + SumOver(f, S \ {x})

\* the dispatch the device runs next
Current == scatter.cmds[scatter.done + 1]
Dispatching(ops) ==
    /\ scatter # NoScatter /\ ~scatter.running
    /\ scatter.done < Len(scatter.cmds)
    /\ Current.op \in ops

\* zero_histograms, as one step
run_zero_histograms ==
    /\ Dispatching({"zero_histograms"})
    /\ scatter' = [scatter EXCEPT !.done = @ + 1,
                                  !.histogram = IF Current.wg >= 1 THEN ZeroCounts ELSE @]
    /\ UNCHANGED <<sortVars, sg, guess, num>>

\* calculate_histogram, as one step: each workgroup counts the keys of its
\* block of HISTO_BLOCK_KVS slots
run_calculate_histogram ==
    /\ Dispatching({"calculate_histogram"})
    /\ scatter' = [scatter EXCEPT
            !.done = @ + 1,
            !.histogram =
                LET counted == { b \in DOMAIN scatter.source :
                                   (b - 1) * SCATTER_BLOCK_KVS < Current.wg * HISTO_BLOCK_KVS }
                IN  [d \in Digits |->
                        @[d] + SumOver([b \in counted |-> scatter.source[b][d]], counted)]]
    /\ UNCHANGED <<sortVars, sg, guess, num>>

\* prefix_histogram, as one step: the exclusive scan over the bins, of which
\* those outside Digits are zero
run_prefix_histogram ==
    /\ Dispatching({"prefix_histogram"})
    /\ scatter' = [scatter EXCEPT
            !.done = @ + 1,
            !.base = IF Current.wg >= 1
                     THEN [d \in Digits |->
                             SumOver(scatter.histogram, { e \in Digits : e < d })]
                     ELSE scatter.histogram]
    /\ UNCHANGED <<sortVars, sg, guess, num>>

\* a scatter dispatch starts its workgroups; the descriptors are INVALID
scatter_begin ==
    /\ Dispatching({"scatter_even", "scatter_odd"})
    /\ scatter' = [scatter EXCEPT
            !.running = TRUE,
            !.into = IF Current.op = "scatter_even" THEN "keys_b" ELSE "keys_a",
            !.partitions = [b \in 1 .. scatter.rows |-> INVALID],
            !.wg = [b \in 1 .. Current.wg |->
                       [pc |-> "load", local |-> ZeroCounts, at |-> 0, exclusive |-> ZeroCounts]],
            !.dest = {}]
    /\ UNCHANGED <<sortVars, sg, guess, num>>

Working(b, pc) ==
    /\ scatter # NoScatter /\ scatter.running
    /\ b \in DOMAIN scatter.wg
    /\ scatter.wg[b].pc = pc

\* a store to descriptor b; a store past the end of the buffer is dropped
Published(b, descriptor) ==
    IF b \in DOMAIN scatter.partitions
    THEN [scatter.partitions EXCEPT ![b] = descriptor]
    ELSE scatter.partitions

\* a load of descriptor b; a load past the end of the buffer reads zeros
Polled(b) ==
    IF b \in DOMAIN scatter.partitions THEN scatter.partitions[b] ELSE INVALID

\* steps 1 and 2: the workgroup loads its block and counts its digits
wg_load(b) ==
    /\ Working(b, "load")
    /\ scatter' = [scatter EXCEPT
            !.wg[b].pc = "publish",
            !.wg[b].local = IF b \in DOMAIN scatter.source
                            THEN scatter.source[b] ELSE ZeroCounts]
    /\ UNCHANGED <<sortVars, sg, guess, num>>

\* step 3: the first block publishes its inclusive prefix, from the base of
\* the histogram; a later block publishes its counts and starts to look back
wg_publish(b) ==
    /\ Working(b, "publish")
    /\ scatter' =
         IF b = 1
         THEN [scatter EXCEPT
                  !.partitions = Published(b, PREFIX([d \in Digits |-> scatter.base[d] + scatter.wg[b].local[d]])),
                  !.wg[b].exclusive = scatter.base,
                  !.wg[b].pc = "scatter"]
         ELSE [scatter EXCEPT
                  !.partitions = Published(b, REDUCTION(scatter.wg[b].local)),
                  !.wg[b].at = b - 1,
                  !.wg[b].pc = "poll"]
    /\ UNCHANGED <<sortVars, sg, guess, num>>

\* step 3: the workgroup polls the descriptor it looks at; it spins while the
\* descriptor is INVALID, adds a REDUCTION and looks one block further back,
\* adds a PREFIX and leaves the loop
wg_poll(b) ==
    /\ Working(b, "poll")
    /\ Polled(scatter.wg[b].at).status # "INVALID"
    /\ scatter' = [scatter EXCEPT
            !.wg[b].exclusive = [d \in Digits |-> @[d] + Polled(scatter.wg[b].at).value[d]],
            !.wg[b].at = IF Polled(scatter.wg[b].at).status = "PREFIX" THEN @ ELSE @ - 1,
            !.wg[b].pc = IF Polled(scatter.wg[b].at).status = "PREFIX" THEN "prefix" ELSE @]
    /\ UNCHANGED <<sortVars, sg, guess, num>>

\* step 3: the workgroup publishes its inclusive prefix
wg_prefix(b) ==
    /\ Working(b, "prefix")
    /\ scatter' = [scatter EXCEPT
            !.partitions = Published(b, PREFIX([d \in Digits |->
                              scatter.wg[b].exclusive[d] + scatter.wg[b].local[d]])),
            !.wg[b].pc = "scatter"]
    /\ UNCHANGED <<sortVars, sg, guess, num>>

\* step 4: the keyvals of digit d go to the slots from the global offset on
wg_scatter(b) ==
    /\ Working(b, "scatter")
    /\ scatter' = [scatter EXCEPT
            !.dest = @ \cup { [block |-> b, digit |-> d,
                               lo |-> scatter.wg[b].exclusive[d],
                               hi |-> scatter.wg[b].exclusive[d] + scatter.wg[b].local[d]] :
                              d \in { e \in Digits : scatter.wg[b].local[e] > 0 } },
            !.wg[b].pc = "done"]
    /\ UNCHANGED <<sortVars, sg, guess, num>>

AllDone ==
    /\ scatter # NoScatter /\ scatter.running
    /\ \A b \in DOMAIN scatter.wg : scatter.wg[b].pc = "done"

\* slots of block b of the destination that hold a key of digit d
Landed(dest, b, d) ==
    LET lo == (b - 1) * SCATTER_BLOCK_KVS
        hi == b * SCATTER_BLOCK_KVS
        runs == { r \in dest : r.digit = d /\ r.lo < hi /\ r.hi > lo }
    IN  SumOver([r \in runs |-> Min(r.hi, hi) - (IF r.lo > lo THEN r.lo ELSE lo)], runs)

\* the dispatch is complete; its destination is the source of the next one
scatter_end ==
    /\ AllDone
    /\ scatter' = [scatter EXCEPT
            !.running = FALSE,
            !.done = @ + 1,
            !.source = [b \in DOMAIN @ |-> [d \in Digits |-> Landed(scatter.dest, b, d)]]]
    /\ UNCHANGED <<sortVars, sg, guess, num>>

\* the sort of n keys of a bundle of capacity n, submitted
InitScatter ==
    /\ SortInit /\ sg = NoSorter /\ guess = NoGuess /\ num = NoCounts
    /\ scatter \in UNION { { [n |-> n, cmds |-> sort_commands(Some(n)), done |-> 0,
                               running |-> FALSE, rows |-> PartitionRows(n),
                               source |-> src, into |-> "keys_a",
                               histogram |-> ZeroCounts, base |-> ZeroCounts,
                               partitions |-> <<>>, wg |-> <<>>, dest |-> {}] :
                              src \in SourceLayouts(n) } : n \in ScatterKeyCounts }

NextScatter ==
    \/ run_zero_histograms
    \/ run_calculate_histogram
    \/ run_prefix_histogram
    \/ scatter_begin
    \/ \E b \in 1 .. MaxScatterBlocks : wg_load(b)
    \/ \E b \in 1 .. MaxScatterBlocks : wg_publish(b)
    \/ \E b \in 1 .. MaxScatterBlocks : wg_poll(b)
    \/ \E b \in 1 .. MaxScatterBlocks : wg_prefix(b)
    \/ \E b \in 1 .. MaxScatterBlocks : wg_scatter(b)
    \/ scatter_end

SpecScatter == InitScatter /\ [][NextScatter]_vars

\* every dispatched workgroup keeps making progress, and so does the queue
FairSpecScatter ==
    /\ SpecScatter
    /\ \A b \in 1 .. MaxScatterBlocks :
           WF_vars(wg_load(b) \/ wg_publish(b) \/ wg_poll(b) \/ wg_prefix(b) \/ wg_scatter(b))
    /\ WF_vars(run_zero_histograms \/ run_calculate_histogram \/ run_prefix_histogram
                  \/ scatter_begin \/ scatter_end)

(***************************************************************************)
(* The buffers of a bundle of a capacity and the slots a sort of n keys    *)
(* touches in them: sizes only, for capacities of many blocks.             *)
(***************************************************************************)
\* capacities around whole numbers of blocks, up to the benchmark's 20M
Capacities ==
    { c \in { b * HISTO_BLOCK_KVS + d : b \in (0 .. MaxBlocks) \cup {5208},
                                        d \in (0 - MaxOffset) .. MaxOffset } : c >= 1 }

NoTouch == [keys |-> 0, payload |-> 0, internal_rows |-> 0]

\* create_sort_buffers calls create_keyval_buffers(device, length)
create_keyval_buffers ==
    /\ num # NoCounts /\ num.pc = "create_keyval_buffers"
    /\ alloc' = [alloc EXCEPT !.keys_a = keys_byte_size(num.capacity),
                              !.keys_b = keys_byte_size(num.capacity),
                              !.payload_a = payload_byte_size(num.capacity),
                              !.payload_b = payload_byte_size(num.capacity)]
    /\ num' = [num EXCEPT !.pc = "create_internal_mem_buffer"]
    /\ UNCHANGED <<length, state_buffer, keys_a, keys_b, payload_a, payload_b, histograms,
                   encoder, queue_writes, device_queue, sorts_recorded, test, trace,
                   sg, guess, scatter>>

\* create_sort_buffers calls create_internal_mem_buffer(device, length)
create_internal_mem_buffer ==
    /\ num # NoCounts /\ num.pc = "create_internal_mem_buffer"
    /\ alloc' = [alloc EXCEPT !.internal = internal_byte_size(num.capacity)]
    /\ num' = [num EXCEPT !.pc = "sort"]
    /\ UNCHANGED <<length, state_buffer, keys_a, keys_b, payload_a, payload_b, histograms,
                   encoder, queue_writes, device_queue, sorts_recorded, test, trace,
                   sg, guess, scatter>>

\* sort(encoder, queue, buffers, Some(n)), submitted
access_sort ==
    /\ num # NoCounts /\ num.pc = "sort"
    /\ num' = [num EXCEPT !.pc = "device", !.cmds = sort_commands(Some(num.n))]
    /\ UNCHANGED <<sortVars, sg, guess, scatter>>

\* slots one dispatch touches, as one past the largest index: zero_histograms
\* zeroes a stripe of RS_RADIX_SIZE words per workgroup and the four
\* histograms; workgroup g of
\* calculate_histogram addresses the keys g * HISTO_BLOCK_KVS + lane; a
\* scatter block addresses its SCATTER_BLOCK_KVS keys, the payloads below
\* num_keys and its partition descriptor behind the histograms
Touches(cmd, n) ==
    IF cmd.op = "zero_histograms"
    THEN [NoTouch EXCEPT !.internal_rows =
                             IF cmd.wg > RS_KEYVAL_SIZE THEN cmd.wg
                             ELSE IF cmd.wg >= 1 THEN RS_KEYVAL_SIZE ELSE 0]
    ELSE IF cmd.op = "calculate_histogram"
    THEN [NoTouch EXCEPT !.keys = cmd.wg * HISTO_BLOCK_KVS]
    ELSE IF cmd.op = "prefix_histogram"
    THEN [NoTouch EXCEPT !.internal_rows = cmd.wg]
    ELSE [keys |-> cmd.wg * SCATTER_BLOCK_KVS,
          payload |-> Min(n, cmd.wg * SCATTER_BLOCK_KVS),
          internal_rows |-> RS_KEYVAL_SIZE + cmd.wg]

\* the device runs the next dispatch of the sort
access_run ==
    /\ num # NoCounts /\ num.pc = "device" /\ num.ran < Len(num.cmds)
    /\ \E t \in {Touches(num.cmds[num.ran + 1], num.n)} :
           num' = [num EXCEPT
                      !.ran = @ + 1,
                      !.touched = [f \in DOMAIN NoTouch |-> IF @[f] >= t[f] THEN @[f] ELSE t[f]]]
    /\ UNCHANGED <<sortVars, sg, guess, scatter>>

\* a bundle of a capacity to create, and a sort of its first n slots
InitAccess ==
    /\ SortInit /\ sg = NoSorter /\ guess = NoGuess /\ scatter = NoScatter
    /\ num \in { [capacity |-> r[1], n |-> r[2], pc |-> "create_keyval_buffers",
                  cmds |-> <<>>, ran |-> 0, touched |-> NoTouch] :
                 r \in { q \in Capacities \X Capacities : q[2] <= q[1] } }

NextAccess == create_keyval_buffers \/ create_internal_mem_buffer \/ access_sort \/ access_run

SpecAccess == InitAccess /\ [][NextAccess]_vars

(***************************************************************************)
(* The host arithmetic in u32.  A number is two limbs of 16 bits, hi not   *)
(* bounded, so that a result of 2^32 or more is told from its wrapped u32. *)
(* An operation on u32 yields the wrapped value and whether it overflowed: *)
(* a build with overflow checks panics there, a build without wraps.       *)
(***************************************************************************)
Limb == 2^16

WideAdd(x, k) == [hi |-> x.hi + (x.lo + k) \div Limb, lo |-> (x.lo + k) % Limb]
WideMul(x, k) == [hi |-> x.hi * k + (x.lo * k) \div Limb, lo |-> (x.lo * k) % Limb]
WideDiv(x, k) == [hi |-> x.hi \div k, lo |-> ((x.hi % k) * Limb + x.lo) \div k]

\* u32 + k: the wrapped value, and whether an operation on the way overflowed
u32_add(a, k) ==
    LET r == WideAdd(a.value, k)
    IN  [value |-> [r EXCEPT !.hi = @ % Limb], overflowed |-> a.overflowed \/ r.hi >= Limb]

\* u32 - 1
u32_sub_1(a) ==
    IF a.value.hi = 0 /\ a.value.lo = 0
    THEN [value |-> [hi |-> Limb - 1, lo |-> Limb - 1], overflowed |-> TRUE]
    ELSE [a EXCEPT !.value = IF @.lo > 0 THEN [@ EXCEPT !.lo = @ - 1]
                             ELSE [hi |-> @.hi - 1, lo |-> Limb - 1]]

\* u32 * k
u32_mul(a, k) ==
    LET r == WideMul(a.value, k)
    IN  [value |-> [r EXCEPT !.hi = @ % Limb], overflowed |-> a.overflowed \/ r.hi >= Limb]

\* u32 / k
u32_div(a, k) == [a EXCEPT !.value = WideDiv(@, k)]

\* scatter_blocks_ru, histo_blocks_ru, keys_buffer_size on u32
scatter_blocks_ru_u32(n) ==
    u32_div(u32_sub_1(u32_add(n, SCATTER_BLOCK_KVS)), SCATTER_BLOCK_KVS)

histo_blocks_ru_u32(n) ==
    u32_div(u32_sub_1(u32_add(u32_mul(scatter_blocks_ru_u32(n), SCATTER_BLOCK_KVS),
                              HISTO_BLOCK_KVS)),
            HISTO_BLOCK_KVS)

keys_buffer_size_u32(n) == u32_mul(histo_blocks_ru_u32(n), HISTO_BLOCK_KVS)

\* create_keyval_buffers: the sizes, before the cast to u64
keys_byte_size_u32(length_u32) ==
    u32_mul(u32_mul(keys_buffer_size_u32(length_u32), RS_KEYVAL_SIZE), BYTES_PER_PAYLOAD_ELEM)

payload_byte_size_u32(length_u32) == u32_mul(length_u32, BYTES_PER_PAYLOAD_ELEM)

\* create_internal_mem_buffer: internal_size, before the cast to u64
internal_byte_size_u32(length_u32) ==
    LET blocks == scatter_blocks_ru_u32(length_u32)
        histo_size == RS_RADIX_SIZE * SIZE_OF_U32
    IN  u32_mul(u32_add(blocks, RS_KEYVAL_SIZE), histo_size)

\* u32 values around 1, 2^16, 2^28, 2^30 and 2^32
WideValues ==
    { v \in [hi : {0, 1, 2^12, 2^14, Limb - 1},
             lo : {0, 1, Limb - SCATTER_BLOCK_KVS, Limb - SCATTER_BLOCK_KVS + 1, Limb - 1}] :
        v.hi + v.lo > 0 }

\* create_sort_buffers(device, length): the three byte sizes
wide_create_sort_buffers ==
    /\ num # NoCounts /\ num.pc = "create_sort_buffers"
    /\ LET length_u32 == [value |-> num.capacity, overflowed |-> FALSE]
           k == keys_byte_size_u32(length_u32)
           p == payload_byte_size_u32(length_u32)
           i == internal_byte_size_u32(length_u32)
       IN  num' = IF num.build = "overflow_checks"
                        /\ (k.overflowed \/ p.overflowed \/ i.overflowed)
                  THEN [num EXCEPT !.pc = "panicked"]
                  ELSE [num EXCEPT !.pc = "sort",
                                   !.sizes.keys = k.value,
                                   !.sizes.payload = p.value,
                                   !.sizes.internal = i.value]
    /\ UNCHANGED <<sortVars, sg, guess, scatter>>

\* sort(encoder, queue, buffers, Some(n)): the workgroup counts
wide_sort ==
    /\ num # NoCounts /\ num.pc = "sort"
    /\ LET n == [value |-> num.n, overflowed |-> FALSE]
           h == histo_blocks_ru_u32(n)
           c == scatter_blocks_ru_u32(n)
       IN  num' = IF num.build = "overflow_checks" /\ (h.overflowed \/ c.overflowed)
                  THEN [num EXCEPT !.pc = "panicked"]
                  ELSE [num EXCEPT !.pc = "recorded",
                                   !.sizes.histo_blocks = h.value,
                                   !.sizes.scatter_blocks = c.value]
    /\ UNCHANGED <<sortVars, sg, guess, scatter>>

\* a capacity, an n up to it, and a build with or without overflow checks
InitWide ==
    /\ SortInit /\ sg = NoSorter /\ guess = NoGuess /\ scatter = NoScatter
    /\ num \in { [capacity |-> r[1], n |-> r[2], build |-> b, pc |-> "create_sort_buffers",
                  sizes |-> [f \in {"keys", "payload", "internal", "histo_blocks",
                                    "scatter_blocks"} |-> [hi |-> 0, lo |-> 0]]] :
                 r \in { q \in WideValues \X WideValues :
                            q[2].hi < q[1].hi \/ (q[2].hi = q[1].hi /\ q[2].lo <= q[1].lo) },
                 b \in {"overflow_checks", "wrapping"} }

NextWide == wide_create_sort_buffers \/ wide_sort

SpecWide == InitWide /\ [][NextWide]_vars

(***************************************************************************)
(* Properties of sorting                                                   *)
(***************************************************************************)
Done == test.phase = "done"

\* the first n slots are in non-decreasing unsigned order
SortedPrefix(ks, n) == \A i \in 1 .. (n - 1) : KeyLeq(ks[i], ks[i + 1])

\* the first n slots of a and of b hold the same elements equally often
SameMultiset(a, b, n) ==
    \A i \in 1 .. n :
        /\ Cardinality({j \in 1 .. n : a[j] = a[i]})
               = Cardinality({j \in 1 .. n : b[j] = a[i]})
        /\ Cardinality({j \in 1 .. n : a[j] = b[i]})
               = Cardinality({j \in 1 .. n : b[j] = b[i]})

Pairs(ks, vs) == [i \in 1 .. Len(ks) |-> <<ks[i], vs[i]>>]

\* C1: once a submission of sort calls with n has run, the first n entries of
\* keys() are in non-decreasing unsigned order and are a permutation of the
\* first n keys the sort started from
C1_SortedPermutation ==
    (Done /\ test.sort_fn = "apply_sort") =>
        /\ SortedPrefix(keys, test.n_sorted)
        /\ SameMultiset(keys, test.keys_scrambled, test.n_sorted)

\* a direct sort of two keys that had to be swapped, the larger with its top bit set
C1_Witness ==
    /\ Done /\ test.sort_fn = "apply_sort" /\ test.n_sorted = 2
    /\ test.keys_scrambled[1] = <<0, 0, 0, 128>>
    /\ keys[1] = <<1, 1, 0, 0>> /\ keys[2] = <<0, 0, 0, 128>>

\* C2: after the sort every (key, value) pair of the first n output slots is
\* one of the first n input pairs, each used exactly once; when the values
\* uploaded were the keys, values()[i] = keys()[i] for every i < n
C2_PairsTravelTogether ==
    (Done /\ test.sort_fn = "apply_sort") =>
        /\ SameMultiset(Pairs(keys, values),
                        Pairs(test.keys_scrambled, test.values_scrambled),
                        test.n_sorted)
        /\ test.values_scrambled = test.keys_scrambled =>
               \A i \in 1 .. test.n_sorted : values[i] = keys[i]

\* two distinct keys uploaded as their own values were swapped by the sort
C2_Witness ==
    /\ Done /\ test.sort_fn = "apply_sort" /\ test.n_sorted = 2
    /\ test.values_scrambled = test.keys_scrambled
    /\ keys[1] # test.keys_scrambled[1]
    /\ values[1] = keys[1] /\ values[2] = keys[2]

C4_IndirectEquivalence ==
    (Done /\ test.sort_fn = "apply_sort_indirect") =>
        /\ SubSeq(keys_a, 1, test.n_sorted) = test.direct.keys
        /\ SubSeq(payload_a, 1, test.n_sorted) = test.direct.values

\* an indirect sort that swapped two keyvals
C4_Witness ==
    /\ Done /\ test.sort_fn = "apply_sort_indirect" /\ test.n_sorted = 2
    /\ keys_a[1] = test.keys_scrambled[2] /\ keys_a[1] # test.keys_scrambled[1]
    /\ payload_a[1] = test.values_scrambled[2]

IsScatter(op) == op \in {"scatter_even", "scatter_odd"}
ScatterTrace == SelectSeq(trace, IsScatter)

\* C5: the scatter passes of a submission run even, odd, even, odd, four per
\* sort; when the submission is done the last pass was an odd one, which
\* writes the a side, and keys() and values() hold the sorted keyvals
C5_Parity ==
    /\ \A i \in 1 .. Len(ScatterTrace) :
           ScatterTrace[i] = IF i % 2 = 1 THEN "scatter_even" ELSE "scatter_odd"
    /\ Done =>
           /\ Len(ScatterTrace) = NUM_PASSES * test.iters
           /\ ScatterTrace[Len(ScatterTrace)] = "scatter_odd"
           /\ SortedPrefix(keys, test.n_sorted)
           /\ SameMultiset(Pairs(keys, values),
                           Pairs(test.keys_scrambled, test.values_scrambled),
                           test.n_sorted)

\* a finished sort whose fourth pass moved the keyvals: the b side, written
\* by the third pass, is not in order
C5_Witness ==
    /\ Done /\ test.n_sorted = 2 /\ Len(ScatterTrace) = NUM_PASSES
    /\ ~SortedPrefix(keys_b, 2)
    /\ SortedPrefix(keys, 2)

\* C6: guess_workgroup_size returns the largest listed width at which the
\* test sort works, and None when it works at none, whatever the pattern of
\* widths at which it works
C6_LargestWorkingWidth ==
    (guess # NoGuess /\ guess.pc = "returned") =>
        LET working == { w \in SubgroupSizeSet : guess.works[w] }
        IN  guess.result =
                IF working = {} THEN None
                ELSE Some(CHOOSE w \in working : \A v \in working : v <= w)

\* C7: for n keys the caller's x = ceil(n / HISTO_BLOCK_KVS) is
\* histo_blocks_ru(n) and scatter_blocks_ru(n), and the dispatches
\* sort_indirect records with the args (x, 1, 1) have the pipelines and
\* workgroup counts of the dispatches sort records for n
C7_IndirectCounts ==
    (num # NoCounts /\ num.direct # <<>> /\ num.indirect # <<>>) =>
        /\ num.x = histo_blocks_ru(num.n)
        /\ num.x = scatter_blocks_ru(num.n)
        /\ num.x * HISTO_BLOCK_KVS >= num.n
        /\ (num.x - 1) * HISTO_BLOCK_KVS < num.n
        /\ num.indirect = num.direct

\* a whole number of blocks, more than one, on both paths
C7_Witness ==
    /\ num # NoCounts /\ num.n = 2 * HISTO_BLOCK_KVS /\ num.x = 2
    /\ Len(num.direct) = 7 /\ num.direct[7].wg = 2 /\ num.indirect[1].wg = 2

\* C8: keys_a and keys_b are allocated with padded_size(capacity) x 4 bytes,
\* padded_size(capacity) = histo_blocks_ru(capacity) x HISTO_BLOCK_KVS being
\* a multiple of HISTO_BLOCK_KVS and at least capacity
C8_KeysAllocation ==
    length > 0 =>
        /\ alloc.keys_a = keys_buffer_size(len) * 4
        /\ alloc.keys_b = keys_buffer_size(len) * 4
        /\ keys_buffer_size(len) = histo_blocks_ru(len) * HISTO_BLOCK_KVS
        /\ keys_buffer_size(len) % HISTO_BLOCK_KVS = 0
        /\ keys_buffer_size(len) >= len

\* C9: the state buffer starts as {capacity, padded_size(capacity), 0, 0};
\* every staged host write is one u32 at offset 0; no host step changes
\* padded_size, even_pass or odd_pass, and padded_size stays
\* padded_size(buffers.len())
C9_StateBufferFrame ==
    /\ [](length > 0 /\ test.phase \in {"created", "uploaded"} =>
              state_buffer = <<len, keys_buffer_size(len), 0, 0>>)
    /\ [](\A i \in 1 .. Len(queue_writes) :
              queue_writes[i].offset = 0 /\ Len(queue_writes[i].data) = 1)
    /\ [](length > 0 => padded_size(Mem) = keys_buffer_size(len))
    /\ [][(length > 0 /\ Idle) =>
              /\ padded_size(Mem)' = padded_size(Mem)
              /\ even_pass(Mem)' = even_pass(Mem)
              /\ odd_pass(Mem)' = odd_pass(Mem)]_vars

\* a second submission lands its write of num_keys after the device has
\* advanced both pass counters
C9_Witness ==
    /\ test.phase = "submitted" /\ Len(device_queue) = 7
    /\ even_pass(Mem) = 2 /\ odd_pass(Mem) = 2
    /\ num_keys(Mem) = 1 /\ len = 2

\* C10: GPUSorter::new with an unsupported subgroup width ends in a
\* pipeline-creation failure: it returns no sorter and does not fail
\* earlier, in the host's arithmetic
C10_UnsupportedWidthFails ==
    (sg # NoSorter /\ ~Supported(sg.subgroup_size)) =>
        /\ sg.pc # "returned"
        /\ sg.pc # "panicked"
        /\ sg.pc = "failed" => sg.result = "pipeline_error"

\* the submission held calls of sort_indirect only
IndirectOnly == \A i \in 1 .. Len(test.calls) : test.calls[i] = 0

\* C11: a call of sort_indirect stages no queue write and leaves the state
\* buffer as it is; when a submission of sort_indirect calls is done the
\* device has sorted num_keys keyvals, num_keys being the value last written
\* to offset 0 of the state buffer, or buffers.len() when nobody wrote one
C11_IndirectNoWrite ==
    /\ [][(\E d \in DispatchBuffers : sort_indirect(d)) =>
              queue_writes' = queue_writes /\ state_buffer' = state_buffer]_vars
    /\ []((Done /\ IndirectOnly) =>
              /\ num_keys(Mem) = unwrap_or(test.written, len)
              /\ SortedPrefix(keys, unwrap_or(test.written, len)))

\* sort_indirect on a bundle nobody wrote num_keys to: both keyvals sorted
C11_Witness ==
    /\ Done /\ IndirectOnly /\ test.written = None
    /\ len = 2 /\ num_keys(Mem) = 2
    /\ keys[1] = test.keys_scrambled[2] /\ keys[1] # test.keys_scrambled[1]

\* the pipelines of one sort, in the order of their dispatches
SortPipelines ==
    << "zero_histograms", "calculate_histogram", "prefix_histogram",
       "scatter_even", "scatter_odd", "scatter_even", "scatter_odd" >>

\* C12: sort for n keys, and sort_indirect with the args for n keys, record
\* zero_histograms, calculate_histogram, prefix_histogram, scatter_even,
\* scatter_odd, scatter_even, scatter_odd in this order; the first two with
\* histo_blocks_ru(n) workgroups, the prefix scan with NUM_PASSES = 4
\* whatever n is, each scatter with scatter_blocks_ru(n)
C12_DispatchOrder ==
    num # NoCounts =>
        \A cmds \in {num.direct, num.indirect} \ {<<>>} :
            /\ [i \in 1 .. Len(cmds) |-> cmds[i].op] = SortPipelines
            /\ \A i \in 1 .. 2 : cmds[i].wg = histo_blocks_ru(num.n)
            /\ cmds[3].wg = 4
            /\ \A i \in 4 .. 7 : cmds[i].wg = scatter_blocks_ru(num.n)

\* three blocks of keys: three workgroups everywhere but in the prefix scan
C12_Witness ==
    /\ num # NoCounts /\ num.n = 2 * HISTO_BLOCK_KVS + 1
    /\ num.direct # <<>> /\ num.indirect # <<>>
    /\ num.direct[2].wg = 3 /\ num.direct[3].wg = 4 /\ num.direct[7].wg = 3
    /\ num.indirect[1].wg = 3 /\ num.indirect[3].wg = 4

\* a key cut down to its digits 0 .. p, that is its low 8 (p + 1) bits
LowBits(k, p) == [q \in 1 .. NUM_PASSES |-> IF q <= p + 1 THEN k[q] ELSE 0]

\* the scatter passes the device has run in this submission; the last one
\* was pass LastPass of its sort and wrote the side DestKeys, DestValues
ScatterCount == Len(ScatterTrace)
LastPass == (ScatterCount - 1) % NUM_PASSES
DestKeys == IF ScatterCount % 2 = 1 THEN keys_b ELSE keys_a
DestValues == IF ScatterCount % 2 = 1 THEN payload_b ELSE payload_a

\* C13: after scatter pass p of a sort of n keyvals the first n keyvals of
\* the side that pass wrote (b for p = 0 and 2, a for p = 1 and 3) are the
\* input keyvals ordered by the low 8 (p + 1) bits of the key, and keyvals
\* equal on those bits are in their input order
C13_PassInvariant ==
    (test.phase \in {"submitted", "done"} /\ ScatterCount >= 1) =>
        /\ \A i, j \in 1 .. test.n_sorted :
               i < j => KeyLeq(LowBits(DestKeys[i], LastPass), LowBits(DestKeys[j], LastPass))
        /\ SameMultiset(Pairs(DestKeys, DestValues),
                        Pairs(test.keys_scrambled, test.values_scrambled),
                        test.n_sorted)
        /\ (/\ ScatterCount <= NUM_PASSES
            /\ test.values_scrambled = ValuesFor("index", test.keys_scrambled)) =>
               \A i, j \in 1 .. test.n_sorted :
                   (i < j /\ LowBits(DestKeys[i], LastPass) = LowBits(DestKeys[j], LastPass))
                       => DestValues[i][1] < DestValues[j][1]

\* after pass 1 two keys that agree on their low 16 bits are still in input
\* order, the greater key first
C13_Witness ==
    /\ test.phase = "submitted" /\ ScatterCount = 2 /\ test.n_sorted = 2
    /\ test.values_scrambled = ValuesFor("index", test.keys_scrambled)
    /\ keys_a[1] = <<0, 0, 0, 128>> /\ keys_a[2] = <<0, 0, 1, 0>>
    /\ payload_a[1] = PayloadWord(1) /\ payload_a[2] = PayloadWord(2)

SweepRegion(offset, size) == { d \in 0 .. (offset + size - 1) : d >= offset }

\* C18: for every width W of 1, 8, 16, 32, 64, 128 the workgroup memory size
\* rs_mem_dwords is larger than the need of the histogram phase,
\* 2 * RS_RADIX_SIZE + rs_sweep_0_size + rs_sweep_1_size + rs_sweep_2_size, and
\* the three sweep regions start at 0, rs_sweep_0_size and rs_sweep_0_size +
\* rs_sweep_1_size, overlap nowhere and lie inside the workgroup memory
C18_SharedMemoryFits ==
    (/\ sg # NoSorter
     /\ sg.pc \in {"shader", "pipelines", "returned", "failed"}
     /\ sg.subgroup_size \in SubgroupSizeSet) =>
        LET W  == sg.subgroup_size
            s0 == RS_RADIX_SIZE \div W
            s1 == s0 \div W
            s2 == s1 \div W
            r0 == SweepRegion(sg.rs_mem_sweep_0_offset, s0)
            r1 == SweepRegion(sg.rs_mem_sweep_1_offset, s1)
            r2 == SweepRegion(sg.rs_mem_sweep_2_offset, s2)
        IN  /\ sg.rs_sweep_0_size = s0 /\ sg.rs_sweep_1_size = s1 /\ sg.rs_sweep_2_size = s2
            /\ sg.rs_smem_phase_1 = 2 * RS_RADIX_SIZE + s0 + s1 + s2
            /\ sg.rs_mem_dwords > sg.rs_smem_phase_1
            /\ sg.rs_mem_sweep_0_offset = 0
            /\ sg.rs_mem_sweep_1_offset = s0
            /\ sg.rs_mem_sweep_2_offset = s0 + s1
            /\ r0 \cap r1 = {} /\ r0 \cap r2 = {} /\ r1 \cap r2 = {}
            /\ (r0 \cup r1 \cup r2) \subseteq 0 .. (sg.rs_mem_dwords - 1)

\* a sorter of width 8: sweeps of 32, 4 and 0 dwords in 4096 dwords
C18_Witness ==
    /\ sg # NoSorter /\ sg.pc = "returned" /\ sg.subgroup_size = 8
    /\ sg.rs_sweep_0_size = 32 /\ sg.rs_sweep_1_size = 4 /\ sg.rs_sweep_2_size = 0
    /\ sg.rs_mem_sweep_1_offset = 32 /\ sg.rs_mem_sweep_2_offset = 36
    /\ sg.rs_smem_phase_1 = 548 /\ sg.rs_mem_dwords = 4096

\* the position in subgroup_sizes of the first width at which the test sort
\* fails, and one past the end when it fails at none
FirstFailure ==
    LET failing == { i \in 1 .. Len(subgroup_sizes) : ~guess.works[subgroup_sizes[i]] }
    IN  IF failing = {} THEN Len(subgroup_sizes) + 1
        ELSE CHOOSE i \in failing : \A j \in failing : i <= j

CurrentCall ==
    Cardinality({ i \in 1 .. Len(trace) : trace[i] \notin {"copy_keys", "copy_values"} })
        \div Len(SortPipelines) + 1

\* C20: in a submission of sort calls, with no other write to the state buffer
\* taking effect, the num_keys the device holds when it runs a dispatch of a
\* sort call is the n passed to that call, also when calls with different n
\* were recorded before the submission
C20_NumKeysOfCall ==
    (/\ test.phase = "submitted" /\ device_queue # <<>> /\ ~IsCopy(Head0)
     /\ test.calls # <<>>
     /\ \A i \in 1 .. Len(test.calls) : test.calls[i] # 0
     /\ test.written = Some(test.calls[Len(test.calls)])
     /\ CurrentCall <= Len(test.calls)) =>
        num_keys(Mem) = test.calls[CurrentCall]

\* keys of digit d in the blocks of the source below block b
LowerBlocks(b, d) ==
    LET lower == { c \in DOMAIN scatter.source : c < b }
    IN  SumOver([c \in lower |-> scatter.source[c][d]], lower)

LeftLookback(b) == scatter.wg[b].pc \in {"prefix", "scatter", "done"}

\* the runs of slots a stable split of the source by the digit writes
ExpectedRuns ==
    { r \in { [block |-> b, digit |-> d,
               lo |-> scatter.base[d] + LowerBlocks(b, d),
               hi |-> scatter.base[d] + LowerBlocks(b, d) + scatter.source[b][d]] :
              b \in DOMAIN scatter.source, d \in Digits } : r.lo < r.hi }

RunLength(dest) == SumOver([r \in dest |-> r.hi - r.lo], dest)

C16_LookbackTerminates ==
    /\ \A b \in 1 .. MaxScatterBlocks :
           (scatter # NoScatter /\ scatter.running /\ b \in DOMAIN scatter.wg
               /\ scatter.wg[b].pc = "poll")
             ~> (scatter # NoScatter /\ b \in DOMAIN scatter.wg /\ LeftLookback(b))
    /\ (scatter # NoScatter /\ scatter.done = 0)
         ~> (scatter # NoScatter /\ scatter.done = 7 /\ ~scatter.running)

\* the seventh dispatch of a sort over three blocks is complete, the result
\* in keys_a
C16_Witness ==
    /\ scatter # NoScatter /\ scatter.done = 7 /\ ~scatter.running
    /\ Len(scatter.cmds) = 7 /\ scatter.cmds[7].wg = 3
    /\ scatter.into = "keys_a"
    /\ scatter.wg[3].pc = "done" /\ scatter.wg[3].at = 1

\* C21: for every capacity and every n from 1 to the capacity, what a sort of
\* n keys touches lies inside the buffers of the bundle:
\* histo_blocks_ru(n) * HISTO_BLOCK_KVS is at most the padded size of the
\* capacity, so the key slots of every dispatched workgroup are inside keys_a
\* and keys_b; scatter_blocks_ru(n) is at most scatter_blocks_ru(capacity), so
\* the partition descriptor of every scatter block is inside the internal
\* buffer; and the payload slots touched are below the capacity
C21_AccessInBounds ==
    (num # NoCounts /\ num.pc = "device") =>
        /\ histo_blocks_ru(num.n) * HISTO_BLOCK_KVS <= keys_buffer_size(num.capacity)
        /\ scatter_blocks_ru(num.n) <= scatter_blocks_ru(num.capacity)
        /\ alloc.internal =
               (RS_KEYVAL_SIZE + scatter_blocks_ru(num.capacity)) * RS_RADIX_SIZE * SIZE_OF_U32
        /\ num.touched.keys <= keys_buffer_size(num.capacity)
        /\ num.touched.keys * SIZE_OF_U32 <= alloc.keys_a
        /\ num.touched.keys * SIZE_OF_U32 <= alloc.keys_b
        /\ num.touched.internal_rows * RS_RADIX_SIZE * SIZE_OF_U32 <= alloc.internal
        /\ num.touched.payload <= num.capacity
        /\ num.touched.payload * BYTES_PER_PAYLOAD_ELEM <= alloc.payload_a
        /\ num.touched.payload * BYTES_PER_PAYLOAD_ELEM <= alloc.payload_b

\* a sort of the whole of a bundle of one key more than two blocks has run:
\* three blocks of keys, three partition descriptors behind the four
\* histograms, and payloads up to the capacity
C21_Witness ==
    /\ num # NoCounts /\ num.pc = "device" /\ num.ran = 7
    /\ num.capacity = 2 * HISTO_BLOCK_KVS + 1 /\ num.n = num.capacity
    /\ num.touched.keys = 3 * HISTO_BLOCK_KVS
    /\ num.touched.payload = num.capacity
    /\ num.touched.internal_rows = RS_KEYVAL_SIZE + 3
    /\ alloc.internal = 7 * RS_RADIX_SIZE * SIZE_OF_U32

\* the mathematical values of the host's counts and sizes
ExactScatterBlocks(n) ==
    WideDiv(WideAdd(n, SCATTER_BLOCK_KVS - 1), SCATTER_BLOCK_KVS)
ExactHistoBlocks(n) ==
    WideDiv(WideAdd(WideMul(ExactScatterBlocks(n), SCATTER_BLOCK_KVS), HISTO_BLOCK_KVS - 1),
            HISTO_BLOCK_KVS)
ExactKeysBytes(c) ==
    WideMul(WideMul(WideMul(ExactHistoBlocks(c), HISTO_BLOCK_KVS), RS_KEYVAL_SIZE),
            BYTES_PER_PAYLOAD_ELEM)
ExactPayloadBytes(c) == WideMul(c, BYTES_PER_PAYLOAD_ELEM)
ExactInternalBytes(c) ==
    WideMul(WideAdd(ExactScatterBlocks(c), RS_KEYVAL_SIZE), RS_RADIX_SIZE * SIZE_OF_U32)

\* C23: for every non-zero u32 capacity and every n passed to sort, the u32
\* computations of the block counts and of the byte sizes of the keys, payload
\* and internal buffers stay below 2^32: none overflows, and each count and
\* size computed is its mathematical value
C23_NoWraparound ==
    num # NoCounts =>
        /\ num.pc # "panicked"
        /\ num.pc \in {"sort", "recorded"} =>
               /\ num.sizes.keys = ExactKeysBytes(num.capacity)
               /\ num.sizes.payload = ExactPayloadBytes(num.capacity)
               /\ num.sizes.internal = ExactInternalBytes(num.capacity)
        /\ num.pc = "recorded" =>
               /\ num.sizes.histo_blocks = ExactHistoBlocks(num.n)
               /\ num.sizes.scatter_blocks = ExactScatterBlocks(num.n)

====
